---- MODULE Spec2Model ----
(***************************************************************************)
(* Model of the React frontend of the CMDB Graph RAG demo: App (shared     *)
(* graphData / isLoading state), ChatPanel (message log, input box,        *)
(* handleSubmit and its asynchronous POST /ask continuation) and           *)
(* GraphVisualization (the vis-network effect and its cleanup).            *)
(*                                                                         *)
(* Text typed by the user is a sequence of characters so that trim() is    *)
(* computed, not assumed.  Server texts (answers, error details) are       *)
(* strings; the empty string is a value of its own because `||` treats it  *)
(* as absent.  The content of a message is a sequence of text chunks: the  *)
(* characters of a typed question, or the one string a server text is.     *)
(***************************************************************************)
EXTENDS Integers, Sequences, FiniteSets, TLC

\* ------------------------------------------------------------------ bounds
\* Number of questions that may be accepted (POST /ask requests issued).
MaxQuestions == 2

\* --------------------------------------------------------- input alphabet
WhiteSpace == {" ", "\t"}

\* What the user can have in the input box (onChange) or what the
\* /examples endpoint can offer.
Inputs ==
  { <<>>, <<" ", "\t">>, <<"\t", "a", " ">> }

\* ------------------------------------------------------- String.trim()
RECURSIVE TrimStart(_)
TrimStart(s) ==
  IF s = <<>> THEN <<>>
  ELSE IF Head(s) \in WhiteSpace THEN TrimStart(Tail(s))
  ELSE s

RECURSIVE TrimEnd(_)
TrimEnd(s) ==
  IF s = <<>> THEN <<>>
  ELSE IF s[Len(s)] \in WhiteSpace THEN TrimEnd(SubSeq(s, 1, Len(s) - 1))
  ELSE s

TrimNoOp(s) == s

Trim(s) == TrimEnd(TrimStart(s))

\* `!question.trim()`: the empty string is the only falsy string.
Rejected(question) == Trim(question) = <<>>

\* ------------------------------------------------------- server fixtures
\* Sources of the response envelope: {name, type, properties}.
SrcDb == [name |-> "DB-Server", type |-> "Asset"]
SrcDc == [name |-> "Data-Center-1", type |-> "Location"]
SrcWeb == [name |-> "Web-App", type |-> "Service"]

\* Nodes of graph_data: {id, labels, properties}; properties are listed in
\* Object.entries order as <<key, value>> pairs.
NodeDb ==
  [id |-> 1, labels |-> <<"Node", "Asset">>,
   properties |-> << <<"name", "DB-Server">>, <<"embedding", "0.1,0.2">>,
                     <<"status", "active">> >>]
NodeDc ==
  [id |-> 2, labels |-> <<"Location">>,
   properties |-> << <<"name", "Data-Center-1">>, <<"description", "main site">> >>]
NodeBare ==
  [id |-> 3, labels |-> <<"Node">>,
   properties |-> << <<"status", "unknown">> >>]
NodeTeam ==
  [id |-> 4, labels |-> <<"Team">>,
   properties |-> << <<"name", "">> >>]

RelLocated == [source |-> 1, target |-> 2, type |-> "LOCATED_IN"]
RelManages == [source |-> 4, target |-> 1, type |-> "MANAGES"]
RelBack == [source |-> 2, target |-> 1, type |-> "DEPENDS_ON"]

GraphSmall == [nodes |-> <<NodeDb, NodeDc>>, relationships |-> <<RelLocated>>]
\* Nodes in a different order, an unlabelled node, an unknown label, and the
\* same relationship twice.
GraphDup ==
  [nodes |-> <<NodeTeam, NodeDc, NodeDb, NodeBare>>,
   relationships |-> <<RelLocated, RelManages, RelLocated, RelBack>>]
GraphEmpty == [nodes |-> <<>>, relationships |-> <<>>]

\* response.data of a successful POST /ask.  hasGraph = FALSE stands for a
\* missing / null graph_data field.
Envelopes ==
  { [answer |-> "The DB-Server is in Data-Center-1.",
     sources |-> <<SrcDb, SrcDc>>, hasGraph |-> TRUE, graph_data |-> GraphSmall],
    [answer |-> "Web-App depends on DB-Server.",
     sources |-> <<SrcWeb, SrcDc, SrcDb>>, hasGraph |-> TRUE, graph_data |-> GraphDup],
    [answer |-> "No relevant data found.",
     sources |-> <<>>, hasGraph |-> TRUE, graph_data |-> GraphEmpty],
    [answer |-> "Two assets match.",
     sources |-> <<SrcDc, SrcDb>>, hasGraph |-> FALSE, graph_data |-> GraphEmpty] }

\* The error a rejected axios.post promise carries.  hasDetail = FALSE
\* stands for error.response?.data?.detail being undefined (network error,
\* body without detail); detail may be the empty string.
Failures ==
  { [hasDetail |-> FALSE, detail |-> ""],
    [hasDetail |-> TRUE, detail |-> ""],
    [hasDetail |-> TRUE, detail |-> "Error processing question: quota exceeded"] }

\* What /examples can return (response.data.examples).
ExampleLists ==
  { <<>>, << <<"a">>, <<" ">> >> }

\* ------------------------------------------------------------- messages
Message(type, content, hasSources, sources) ==
  [type |-> type, content |-> content, hasSources |-> hasSources, sources |-> sources]

WelcomeMessage ==
  Message("system", <<"Welcome! Ask me anything about your CMDB infrastructure.">>,
          FALSE, <<>>)

UserMessage(question) == Message("user", question, FALSE, <<>>)

AssistantMessage(answerData) ==
  Message("assistant", <<answerData.answer>>, TRUE, answerData.sources)

FallbackText == "Failed to get answer. Please try again."

\* error.response?.data?.detail || 'Failed to get answer. Please try again.'
ErrorContentNoFallback(error) == error.detail

ErrorContent(error) ==
  IF error.hasDetail /\ error.detail # "" THEN error.detail ELSE FallbackText

ErrorMessage(error) == Message("error", <<ErrorContent(error)>>, FALSE, <<>>)

\* setMessages(prev => [...prev, message])
setMessagesPrepend(prev, message) == <<message>> \o prev

setMessagesAppend(prev, message) == Append(prev, message)

\* The <li> items ChatPanel renders under one message.
RenderSourcesReversed(message) ==
  IF message.hasSources /\ Len(message.sources) > 0
  THEN [idx \in 1..Len(message.sources) |->
          <<message.sources[Len(message.sources) + 1 - idx].type,
            message.sources[Len(message.sources) + 1 - idx].name>>]
  ELSE <<>>

RenderSources(message) ==
  IF message.hasSources /\ Len(message.sources) > 0
  THEN [idx \in 1..Len(message.sources) |->
          <<message.sources[idx].type, message.sources[idx].name>>]
  ELSE <<>>

\* ------------------------------------------------- GraphVisualization
\* Colours are <<r, g, b>> triples: '#4CAF50' is <<76, 175, 80>>.
ColorAsset == <<76, 175, 80>>
ColorService == <<33, 150, 243>>
ColorUser == <<255, 152, 0>>
ColorLocation == <<156, 39, 176>>
ColorNode == <<117, 117, 117>>

colorMap(label) ==
  CASE label = "Asset" -> ColorAsset
    [] label = "Service" -> ColorService
    [] label = "User" -> ColorUser
    [] label = "Location" -> ColorLocation
    [] OTHER -> ColorNode

shapeMap(label) ==
  CASE label = "Asset" -> "box"
    [] label = "Service" -> "ellipse"
    [] label = "User" -> "circle"
    [] label = "Location" -> "diamond"
    [] OTHER -> "dot"

Max(a, b) == IF a >= b THEN a ELSE b

darkenColor(color) ==
  <<Max(0, color[1] - 30), Max(0, color[2] - 30), Max(0, color[3] - 30)>>

\* node.labels.find(l => l !== 'Node') || 'Node'
RECURSIVE PrimaryLabel(_)
PrimaryLabel(labels) ==
  IF labels = <<>> THEN "Node"
  ELSE IF Head(labels) # "Node" /\ Head(labels) # "" THEN Head(labels)
  ELSE IF Head(labels) # "Node" THEN "Node"
  ELSE PrimaryLabel(Tail(labels))

\* node.properties.name || 'Unknown'
RECURSIVE DisplayName(_)
DisplayName(properties) ==
  IF properties = <<>> THEN "Unknown"
  ELSE IF Head(properties)[1] = "name"
       THEN (IF Head(properties)[2] = "" THEN "Unknown" ELSE Head(properties)[2])
  ELSE DisplayName(Tail(properties))

\* The lines of the tooltip (joined with <br/> in the code).
RECURSIVE TooltipLines(_)
TooltipLines(properties) ==
  IF properties = <<>> THEN <<>>
  ELSE IF Head(properties)[1] # "embedding" /\ Head(properties)[1] # "description"
       THEN <<Head(properties)>> \o TooltipLines(Tail(properties))
  ELSE TooltipLines(Tail(properties))

formatNodeTooltip(node) ==
  <<PrimaryLabel(node.labels)>> \o TooltipLines(node.properties)

VisNode(node) ==
  [id |-> node.id,
   label |-> DisplayName(node.properties),
   title |-> formatNodeTooltip(node),
   background |-> colorMap(PrimaryLabel(node.labels)),
   border |-> darkenColor(colorMap(PrimaryLabel(node.labels))),
   shape |-> shapeMap(PrimaryLabel(node.labels))]

visNodes(nodes) == [i \in 1..Len(nodes) |-> VisNode(nodes[i])]

\* relationships.map((rel, idx) => ({id: idx, from, to, label, arrows: 'to'}))
VisEdge(rel, idx) ==
  [id |-> idx, from |-> rel.source, to |-> rel.target, label |-> rel.type,
   arrows |-> "to"]

RECURSIVE DedupRels(_)
DedupRels(rels) ==
  IF rels = <<>> THEN <<>>
  ELSE IF \E i \in 1..(Len(rels) - 1) : rels[i] = rels[Len(rels)]
       THEN DedupRels(SubSeq(rels, 1, Len(rels) - 1))
  ELSE Append(DedupRels(SubSeq(rels, 1, Len(rels) - 1)), rels[Len(rels)])

visEdgesDeduped(relationships) ==
  [i \in 1..Len(DedupRels(relationships)) |-> VisEdge(DedupRels(relationships)[i], i - 1)]

visEdges(relationships) ==
  [i \in 1..Len(relationships) |-> VisEdge(relationships[i], i - 1)]

VisData(graph) ==
  [nodes |-> visNodes(graph.nodes), edges |-> visEdges(graph.relationships)]

EmptyData == [nodes |-> <<>>, edges |-> <<>>]

\* networkRef.current: live = FALSE is null.  A live network remembers which
\* construction it came from (id), the data it shows and its click handler.
NullNetwork == [live |-> FALSE, id |-> 0, data |-> EmptyData, onClick |-> FALSE]

\* The cleanup returned by the effect.
Cleanup(net) == IF net.live THEN NullNetwork ELSE net

\* "Create or update network": setData on a live network, else new Network
\* plus on('click', ...).  made is the number of Networks constructed so far.
CreateOrUpdate(net, data, made) ==
  IF net.live
  THEN [net EXCEPT !.data = data]
  ELSE [live |-> TRUE, id |-> made + 1, data |-> data, onClick |-> TRUE]

\* ------------------------------------------------------------------ state
VARIABLES
  messages,      \* ChatPanel: useState([]) after the mount effect
  inputValue,    \* ChatPanel: the input box
  examples,      \* ChatPanel: example questions
  examplesReq,   \* GET /examples: "pending" or "done"
  isLoading,     \* App: useState(false)
  graphData,     \* App: useState(null); ver 0 is null, else the response object
  inflight,      \* POST /ask promises not yet settled, with their closure
  accepted,      \* number of POST /ask requests issued so far
  networkRef,    \* GraphVisualization: networkRef.current
  cleanup,       \* GraphVisualization: the last effect run returned a cleanup
  effectVer,     \* GraphVisualization: the graphData the effect last ran for
  made,          \* number of `new Network(...)` constructions
  setDataCalls,  \* number of networkRef.current.setData(...) calls
  lastCall,      \* the argument of the latest handleSubmit call
  lastReply      \* the latest settled POST /ask and what it carried

vars ==
  <<messages, inputValue, examples, examplesReq, isLoading, graphData, inflight,
    accepted, networkRef, cleanup, effectVer, made, setDataCalls, lastCall,
    lastReply>>

chatVars == <<messages, inputValue, examples, examplesReq, inflight, accepted>>
graphVars == <<networkRef, cleanup, effectVer, made, setDataCalls>>

NullGraphData == [ver |-> 0, graph |-> GraphEmpty]

NoEnvelope ==
  [answer |-> "", sources |-> <<>>, hasGraph |-> FALSE, graph_data |-> GraphEmpty]
NoError == [hasDetail |-> FALSE, detail |-> ""]

Init ==
  /\ messages = <<WelcomeMessage>>
  /\ inputValue = <<>>
  /\ examples = <<>>
  /\ examplesReq = "pending"
  /\ isLoading = FALSE
  /\ graphData = NullGraphData
  /\ inflight = {}
  /\ accepted = 0
  /\ networkRef = NullNetwork
  /\ cleanup = FALSE
  /\ effectVer = 0
  /\ made = 0
  /\ setDataCalls = 0
  /\ lastCall = [called |-> FALSE, question |-> <<>>]
  /\ lastReply = [id |-> 0, ok |-> FALSE, data |-> NoEnvelope, error |-> NoError]

\* ------------------------------------------------------------- ChatPanel
\* GET /examples resolves: setExamples(response.data.examples).
ExamplesLoaded(list) ==
  /\ examplesReq = "pending"
  /\ examples' = list
  /\ examplesReq' = "done"
  /\ UNCHANGED <<messages, inputValue, isLoading, graphData, inflight, accepted,
                 lastCall, lastReply>>
  /\ UNCHANGED graphVars

\* GET /examples rejects: console.error only.
ExamplesFailed ==
  /\ examplesReq = "pending"
  /\ examplesReq' = "done"
  /\ UNCHANGED <<messages, inputValue, examples, isLoading, graphData, inflight,
                 accepted, lastCall, lastReply>>
  /\ UNCHANGED graphVars

\* onChange of the input box.
OnChange(value) ==
  /\ inputValue' = value
  /\ UNCHANGED <<messages, examples, examplesReq, isLoading, graphData, inflight,
                 accepted, lastCall, lastReply>>
  /\ UNCHANGED graphVars

\* handleSubmit up to its await.
handleSubmit(question) ==
  /\ lastCall' = [called |-> TRUE, question |-> question]
  /\ IF Rejected(question)
     THEN UNCHANGED <<messages, inputValue, isLoading, inflight, accepted>>
     ELSE /\ accepted < MaxQuestions
          /\ messages' = setMessagesAppend(messages, UserMessage(question))
          /\ inputValue' = <<>>
          /\ isLoading' = TRUE
          /\ inflight' = inflight \cup {[id |-> accepted + 1, question |-> question]}
          /\ accepted' = accepted + 1
  /\ UNCHANGED <<examples, examplesReq, graphData, lastReply>>
  /\ UNCHANGED graphVars

\* Enter (without shift) in the input box.
PressEnter == handleSubmit(inputValue)

\* The Send button, disabled while the input is blank.
ClickSend ==
  /\ ~Rejected(inputValue)
  /\ handleSubmit(inputValue)

\* An example button: shown while only the welcome message is in the log.
handleExampleClick(index) ==
  /\ Len(examples) > 0
  /\ Len(messages) = 1
  /\ index \in 1..Len(examples)
  /\ index <= 4
  /\ handleSubmit(examples[index])

\* App.handleNewAnswer
handleNewAnswer(answerData, id) ==
  IF answerData.hasGraph
  THEN [ver |-> id, graph |-> answerData.graph_data]
  ELSE graphData

\* The continuation of handleSubmit when axios.post resolves.
AskSucceeded(request, answerData) ==
  /\ request \in inflight
  /\ messages' = setMessagesAppend(messages, AssistantMessage(answerData))
  /\ graphData' = handleNewAnswer(answerData, request.id)
  /\ isLoading' = FALSE
  /\ inflight' = inflight \ {request}
  /\ lastReply' = [id |-> request.id, ok |-> TRUE, data |-> answerData,
                   error |-> NoError]
  /\ UNCHANGED <<inputValue, examples, examplesReq, accepted, lastCall>>
  /\ UNCHANGED graphVars

FinallyKeepLoading == isLoading

FinallyLoading == FALSE

\* The continuation of handleSubmit when axios.post rejects.
AskFailed(request, error) ==
  /\ request \in inflight
  /\ messages' = setMessagesAppend(messages, ErrorMessage(error))
  /\ isLoading' = FinallyLoading
  /\ inflight' = inflight \ {request}
  /\ lastReply' = [id |-> request.id, ok |-> FALSE, data |-> NoEnvelope,
                   error |-> error]
  /\ UNCHANGED <<inputValue, examples, examplesReq, graphData, accepted, lastCall>>
  /\ UNCHANGED graphVars

\* ---------------------------------------------------- GraphVisualization
\* The effect on [graphData]: React first runs the cleanup the previous run
\* returned, then the effect body for the new graphData.
GraphEffect ==
  /\ graphData.ver # effectVer
  /\ effectVer' = graphData.ver
  /\ LET before == IF cleanup THEN Cleanup(networkRef) ELSE networkRef
         nodes == graphData.graph.nodes
     IN IF Len(nodes) = 0
        THEN /\ networkRef' = before
             /\ cleanup' = FALSE
             /\ UNCHANGED <<made, setDataCalls>>
        ELSE /\ networkRef' = CreateOrUpdate(before, VisData(graphData.graph), made)
             /\ made' = IF before.live THEN made ELSE made + 1
             /\ setDataCalls' = IF before.live THEN setDataCalls + 1 ELSE setDataCalls
             /\ cleanup' = TRUE
  /\ UNCHANGED <<isLoading, graphData, lastCall, lastReply>>
  /\ UNCHANGED chatVars

Next ==
  \/ \E list \in ExampleLists : ExamplesLoaded(list)
  \/ ExamplesFailed
  \/ \E value \in Inputs : OnChange(value)
  \/ PressEnter
  \/ ClickSend
  \/ \E index \in 1..4 : handleExampleClick(index)
  \/ \E request \in inflight, answerData \in Envelopes : AskSucceeded(request, answerData)
  \/ \E request \in inflight, error \in Failures : AskFailed(request, error)
  \/ GraphEffect

Spec == Init /\ [][Next]_vars

\* Every request settles and the effect runs after every render.
Settle ==
  \/ \E request \in inflight, answerData \in Envelopes : AskSucceeded(request, answerData)
  \/ \E request \in inflight, error \in Failures : AskFailed(request, error)

LiveSpec == Spec /\ WF_vars(Settle) /\ WF_vars(GraphEffect)

\* ====================================================================
\* Properties
\* ====================================================================

\* A question consists of white space only (its trim is the empty string).
IsBlank(question) == \A i \in 1..Len(question) : question[i] \in WhiteSpace

\* A POST /ask settled in this step.
Settled == lastReply'.id # lastReply.id

\* C1: a handleSubmit call whose question is empty after trimming issues no
\* POST /ask request, appends no message, does not clear the input and does
\* not change isLoading.
C1_BlankRejected ==
  [][(lastCall' # lastCall /\ IsBlank(lastCall'.question))
       => UNCHANGED <<inflight, accepted, messages, inputValue, isLoading>>]_vars

\* C1 witness: handleSubmit was called with a non-empty, all-white-space
\* question and the log still holds the welcome message only.
C1_Witness ==
  /\ lastCall.called
  /\ lastCall.question # <<>>
  /\ IsBlank(lastCall.question)
  /\ inputValue = lastCall.question
  /\ messages = <<WelcomeMessage>>
  /\ accepted = 0
  /\ ~isLoading

\* C2 as stated: when a POST /ask fails exactly one error message is
\* appended, its content being the detail field if present and the fixed
\* text otherwise, and graphData is left alone.
C2_DetailIfPresent ==
  [][(Settled /\ ~lastReply'.ok)
       => /\ messages' =
               Append(messages,
                      [type |-> "error",
                       content |-> <<IF lastReply'.error.hasDetail
                                     THEN lastReply'.error.detail
                                     ELSE "Failed to get answer. Please try again.">>,
                       hasSources |-> FALSE, sources |-> <<>>])
          /\ graphData' = graphData]_vars

\* C2 amended: when a POST /ask fails exactly one error message is appended,
\* its content being the detail field if present and non-empty and the fixed
\* text otherwise; no assistant message is appended and graphData is left
\* alone (onNewAnswer is not called).
C2_DetailIfNonEmpty ==
  [][(Settled /\ ~lastReply'.ok)
       => /\ messages' =
               Append(messages,
                      [type |-> "error",
                       content |-> <<IF lastReply'.error.hasDetail
                                        /\ lastReply'.error.detail # ""
                                     THEN lastReply'.error.detail
                                     ELSE "Failed to get answer. Please try again.">>,
                       hasSources |-> FALSE, sources |-> <<>>])
          /\ graphData' = graphData]_vars

\* C2 witness: the latest request failed without a detail while the graph of
\* an earlier answer is on display; the log ends with the fixed error text.
C2_Witness ==
  /\ lastReply.id > 0
  /\ ~lastReply.ok
  /\ ~lastReply.error.hasDetail
  /\ graphData.ver # 0
  /\ graphData.ver # lastReply.id
  /\ messages[Len(messages)].type = "error"
  /\ messages[Len(messages)].content = <<"Failed to get answer. Please try again.">>

\* C3: on a successful response the appended assistant message stores the
\* response's sources unchanged, and they are rendered in the same order
\* and number, item i showing sources[i].
C3_SourceOrder ==
  [][(Settled /\ lastReply'.ok)
       => LET m == messages'[Len(messages')]
              src == lastReply'.data.sources
          IN /\ Len(messages') = Len(messages) + 1
             /\ m.type = "assistant"
             /\ m.hasSources
             /\ m.sources = src
             /\ Len(RenderSources(m)) = Len(src)
             /\ \A i \in 1..Len(src) :
                  RenderSources(m)[i] = <<src[i].type, src[i].name>>]_vars

\* C3 witness: the latest response carried three sources and the first item
\* shown under the last message is the response's first source.
C3_Witness ==
  /\ lastReply.ok
  /\ Len(lastReply.data.sources) = 3
  /\ messages[Len(messages)].type = "assistant"
  /\ RenderSources(messages[Len(messages)])[1] = <<"Service", "Web-App">>
  /\ RenderSources(messages[Len(messages)])[3] = <<"Asset", "DB-Server">>

\* C4: once the effect has run for a graph_data with at least one node, the
\* network shows one visual node per entry of nodes, in order and with that
\* entry's id, and one directed edge per entry of relationships, in order,
\* from its source to its target and labelled with its type.
C4_FaithfulGraph ==
  (effectVer = graphData.ver /\ Len(graphData.graph.nodes) > 0)
    => LET nodes == graphData.graph.nodes
           rels == graphData.graph.relationships
           data == networkRef.data
       IN /\ networkRef.live
          /\ Len(data.nodes) = Len(nodes)
          /\ \A i \in 1..Len(nodes) : data.nodes[i].id = nodes[i].id
          /\ Len(data.edges) = Len(rels)
          /\ \A i \in 1..Len(rels) :
               /\ data.edges[i].from = rels[i].source
               /\ data.edges[i].to = rels[i].target
               /\ data.edges[i].label = rels[i].type
               /\ data.edges[i].arrows = "to"

\* C4 witness: the network shows a graph in which the same relationship
\* occurs twice, as two edges.
C4_Witness ==
  /\ effectVer = graphData.ver
  /\ networkRef.live
  /\ Len(graphData.graph.relationships) = 4
  /\ graphData.graph.relationships[1] = graphData.graph.relationships[3]
  /\ Len(networkRef.data.edges) = 4
  /\ networkRef.data.edges[1].from = networkRef.data.edges[3].from
  /\ networkRef.data.edges[1].to = networkRef.data.edges[3].to
  /\ networkRef.data.edges[1].label = networkRef.data.edges[3].label

\* The number of messages of one type in the log.
CountType(log, type) == Cardinality({i \in 1..Len(log) : log[i].type = type})

\* C5, in every state: the welcome message is at index 0, the user message
\* of every request in flight is in the log, and every accepted question has
\* its user message and either a pending request or exactly one reply.
C5_LogShape ==
  /\ messages[1] = WelcomeMessage
  /\ CountType(messages, "system") = 1
  /\ CountType(messages, "user") = accepted
  /\ CountType(messages, "assistant") + CountType(messages, "error")
       = accepted - Cardinality(inflight)
  /\ \A request \in inflight :
       \E i \in 1..Len(messages) :
         messages[i].type = "user" /\ messages[i].content = request.question

\* C5, in every step: the log only grows at its end; accepting a question
\* appends its user message and issues its request; a settling request
\* appends exactly one message, assistant on success and error on failure,
\* after the user message of that request; nothing else touches the log.
C5_LogStep ==
  /\ Len(messages') >= Len(messages)
  /\ SubSeq(messages', 1, Len(messages)) = messages
  /\ (accepted' # accepted)
       => /\ messages' = Append(messages, UserMessage(lastCall'.question))
          /\ ~IsBlank(lastCall'.question)
          /\ inflight' = inflight \cup
                           {[id |-> accepted', question |-> lastCall'.question]}
  /\ Settled
       => /\ Len(messages') = Len(messages) + 1
          /\ messages'[Len(messages')].type
               = (IF lastReply'.ok THEN "assistant" ELSE "error")
          /\ \E request \in inflight :
               /\ request.id = lastReply'.id
               /\ inflight' = inflight \ {request}
               /\ \E i \in 1..Len(messages) :
                    /\ messages[i].type = "user"
                    /\ messages[i].content = request.question
  /\ (accepted' = accepted /\ ~Settled) => messages' = messages

\* C5: the chat log is append-only and every accepted question gets exactly
\* one reply, for any interleaving of the questions in flight.
C5_AppendOnly == []C5_LogShape /\ [][C5_LogStep]_vars

\* C5 witness: two questions were in flight together and the second one was
\* answered first; the log is welcome, user, user, reply, reply.
C5_Witness ==
  /\ Len(messages) = 5
  /\ messages[2].type = "user"
  /\ messages[3].type = "user"
  /\ messages[4].type = "error"
  /\ messages[5].type = "assistant"
  /\ lastReply.id = 1
  /\ inflight = {}

\* C6: when every request settles and no further question is submitted,
\* isLoading ends up false for good; a failing request resets it like a
\* successful one.
C6_LoadingEnds ==
  /\ <>[](isLoading = FALSE)
  /\ [][Settled => isLoading' = FALSE]_vars

\* C6 witness: the only request failed and the indicator is off.
C6_Witness ==
  /\ accepted = 1
  /\ inflight = {}
  /\ lastReply.id = 1
  /\ ~lastReply.ok
  /\ isLoading = FALSE

\* C7 as stated: when new graph data with at least one node arrives while a
\* Network exists, that Network is updated with setData and no new Network
\* is constructed.
C7_UpdateInPlace ==
  [][(effectVer' # effectVer /\ networkRef.live
        /\ Len(graphData.graph.nodes) > 0)
       => /\ setDataCalls' = setDataCalls + 1
          /\ made' = made
          /\ networkRef'.live
          /\ networkRef'.id = networkRef.id]_vars

\* C8 as stated: isLoading is true whenever a POST /ask is in flight.
C8_LoadingWhileInFlight == inflight # {} => isLoading

====
